---- MODULE Spec2Model ----
(***************************************************************************)
(* A model of logfmt_nostd (src/src/lib.rs): Token::parse and Log::parse.  *)
(*                                                                         *)
(* A string is a sequence of characters, a character a one-character TLA+  *)
(* string (EACUTE, a character of two bytes, is written by its code        *)
(* point).  Positions are 1-based character positions; `pos` is the number *)
(* of characters the `chars` iterator of Log::parse has consumed.  One     *)
(* action models one iteration of the `loop` of Log::parse, one action per *)
(* way the iteration can end.                                              *)
(***************************************************************************)
EXTENDS Integers, Sequences, FiniteSets, TLC

VARIABLES
    s,                       \* the input of Log::parse
    pos,                     \* characters consumed from `chars`
    message,                 \* the message buffer
    attributes,              \* the attribute list, a sequence of <<key, value>>
    message_property_found,  \* the override flag
    token,                   \* the token sliced by the last iteration
    result,                  \* "None" while parsing, then "Ok" or "Err"
    log_message,             \* message() of the returned Log
    log_attributes,          \* attributes() of the returned Log
    last_override,           \* history: the value copied by the last override
    classified               \* the return of Token::parse called on s alone

vars == <<s, pos, message, attributes, message_property_found, token,
          result, log_message, log_attributes, last_override, classified>>

----------------------------------------------------------------------------
(* Characters *)

DQ == "\""
EQ == "="
SP == " "
TAB == "\t"
EACUTE == "U+00E9"

\* char::len_utf8, on the characters of the model's alphabet
Utf8Len(ch) == IF ch = EACUTE THEN 2 ELSE 1

\* char::is_whitespace, on the characters of the model's alphabet
IsWhitespace(ch) == ch \in {SP, TAB}

\* char::is_alphanumeric, on the characters of the model's alphabet
IsAlphanumeric(ch) ==
    ch \in {"a", "b", "c", "d", "e", "f", "g", "h", "i", "j", "k", "l", "m",
            "n", "o", "p", "q", "r", "s", "t", "u", "v", "w", "x", "y", "z",
            "0", "1", "2", "3", "4", "5", "6", "7", "8", "9", EACUTE}

\* the key characters admitted besides the alphanumeric ones
IsKeyPunctuation(ch) == ch \in {".", "_", "-", DQ}

----------------------------------------------------------------------------
(* Program constants *)

Cap == 25
MaxKeyLen == 50
MaxQuotedKeyLen == 52
MaxValueLen == 100
MaxQuotedValueLen == 102

\* the literal keys that override the message
MessageKeys ==
    { <<"m", "s", "g">>,
      <<"m", "e", "s", "s", "a", "g", "e">>,
      <<DQ, "m", "s", "g", DQ>>,
      <<DQ, "m", "e", "s", "s", "a", "g", "e", DQ>> }

----------------------------------------------------------------------------
(* Token::parse *)

StartsWith(str, ch) == Len(str) > 0 /\ str[1] = ch
EndsWith(str, ch) == Len(str) > 0 /\ str[Len(str)] = ch

\* str::trim
RECURSIVE TrimStart(_)
TrimStart(str) ==
    IF Len(str) > 0 /\ IsWhitespace(str[1]) THEN TrimStart(Tail(str)) ELSE str

RECURSIVE TrimEnd(_)
TrimEnd(str) ==
    IF Len(str) > 0 /\ IsWhitespace(str[Len(str)])
    THEN TrimEnd(SubSeq(str, 1, Len(str) - 1))
    ELSE str

Trim(str) == TrimEnd(TrimStart(str))

\* position of the first '=' of str, 0 when there is none (str::split_once)
SplitOnce(str) ==
    IF \E i \in 1..Len(str) : str[i] = EQ
    THEN CHOOSE i \in 1..Len(str) :
            str[i] = EQ /\ \A j \in 1..(i - 1) : str[j] # EQ
    ELSE 0

\* the length of str in bytes: one for each character, and one more for each
\* character of two bytes
ByteCount(str) ==
    Len(str) + Cardinality({ i \in 1..Len(str) : Utf8Len(str[i]) = 2 })

\* chars().count()
CharCount(str) == Len(str)

\* InteriorQuote that looks at the first and the last character too
InteriorQuoteAnywhere(str) == \E i \in 1..Len(str) : str[i] = DQ

\* chars().take(len.saturating_sub(1)).skip(1).any(|ch| ch == '"')
InteriorQuote(str) == \E i \in 2..(Len(str) - 1) : str[i] = DQ

\* KeyInvalid that also turns down the empty key
KeyInvalidOrEmpty(key) ==
    \/ key = <<>>
    \/ (CharCount(key) > MaxKeyLen /\ ~StartsWith(key, DQ))
    \/ CharCount(key) > MaxQuotedKeyLen
    \/ InteriorQuote(key)
    \/ (StartsWith(key, DQ) /\ ~EndsWith(key, DQ))
    \/ (~StartsWith(key, DQ) /\ EndsWith(key, DQ))
    \/ \E i \in 1..Len(key) :
          ~IsAlphanumeric(key[i]) /\ ~IsKeyPunctuation(key[i])

KeyInvalid(key) ==
    \/ (CharCount(key) > MaxKeyLen /\ ~StartsWith(key, DQ))
    \/ CharCount(key) > MaxQuotedKeyLen
    \/ InteriorQuote(key)
    \/ (StartsWith(key, DQ) /\ ~EndsWith(key, DQ))
    \/ (~StartsWith(key, DQ) /\ EndsWith(key, DQ))
    \/ \E i \in 1..Len(key) :
          ~IsAlphanumeric(key[i]) /\ ~IsKeyPunctuation(key[i])

ValueInvalid(value) ==
    \/ (CharCount(value) > MaxValueLen /\ ~StartsWith(value, DQ))
    \/ CharCount(value) > MaxQuotedValueLen
    \/ InteriorQuote(value)
    \/ (StartsWith(value, DQ) /\ ~EndsWith(value, DQ))
    \/ (~StartsWith(value, DQ) /\ EndsWith(value, DQ))

TokenParse(str) ==
    LET i == SplitOnce(str) IN
    IF i = 0
    THEN [kind |-> "Word", word |-> str]
    ELSE LET key == Trim(SubSeq(str, 1, i - 1))
             value == Trim(SubSeq(str, i + 1, Len(str)))
         IN  IF KeyInvalid(key) \/ ValueInvalid(value)
             THEN [kind |-> "Word", word |-> str]
             ELSE [kind |-> "Attribute", key |-> key, value |-> value]

----------------------------------------------------------------------------
(* The tokenizer of Log::parse *)

\* chars.find(|(_, ch)| !ch.is_whitespace()) after p characters were consumed:
\* the position of the first character of the token, 0 for None
RECURSIVE FindStart(_, _)
FindStart(str, p) ==
    IF p >= Len(str) THEN 0
    ELSE IF ~IsWhitespace(str[p + 1]) THEN p + 1
    ELSE FindStart(str, p + 1)

\* the in_string update of the closure that looks for the end of the token
ToggleString(in_string, ch) ==
    (in_string /\ ch # DQ) \/ (~in_string /\ ch = DQ)

\* chars.find(..).map_or_else(|| s.len(), ..) after p characters were consumed,
\* p being the position of the first character of the token: `end` is the
\* position after the last character of the token, `pos` what is consumed then
RECURSIVE FindEnd(_, _, _)
FindEnd(str, p, in_string) ==
    IF p >= Len(str)
    THEN [end |-> Len(str) + 1, in_string |-> in_string, pos |-> Len(str)]
    ELSE LET ch == str[p + 1]
             now == ToggleString(in_string, ch)
         IN  IF IsWhitespace(ch) /\ ~now
             THEN [end |-> p + 1, in_string |-> now, pos |-> p + 1]
             ELSE FindEnd(str, p + 1, now)

\* ScanFrom that leaves the token in the iterator: the next search for a
\* start begins again where this one began
ScanFromNoAdvance(str, start) ==
    [FindEnd(str, start, FALSE) EXCEPT !.pos = start - 1]

\* where the scan of the next token starts: let mut in_string = false
ScanFrom(str, start) == FindEnd(str, start, FALSE)

\* the tokens the loop slices from str once p characters were consumed, up to
\* the end of str or to the token that is left unclosed
RECURSIVE TokensFrom(_, _)
TokensFrom(str, p) ==
    LET start == FindStart(str, p) IN
    IF start = 0 THEN <<>>
    ELSE LET scan == ScanFrom(str, start) IN
         IF scan.in_string THEN <<>>
         ELSE <<SubSeq(str, start, scan.end - 1)>> \o TokensFrom(str, scan.pos)

----------------------------------------------------------------------------
(* The assembler of Log::parse *)

\* AppendWord that never pushes the separating space
AppendWordNoSeparator(buf, word) == buf \o word

\* if !message.is_empty() { message.push(' ') }; write!(message, "{word}")
AppendWord(buf, word) ==
    IF buf # <<>> THEN buf \o <<SP>> \o word ELSE word

\* WordInto that does not look at the override flag
WordIntoUngated(buf, found, word) ==
    IF buf # <<>> THEN buf \o <<SP>> \o word ELSE word

\* if !message_property_found { .. }: a word is dropped once an override applied
WordInto(buf, found, word) ==
    IF ~found THEN AppendWord(buf, word) ELSE buf

\* HasRoom that lets a full list take one more entry
HasRoomInclusive(list) == Len(list) <= Cap

\* the guard of the Attribute arm
HasRoom(list) == Len(list) < Cap

\* Position that never finds the key
PositionNone(list, key) == 0

\* attributes.iter().position(|(found_key, _)| &key == found_key), 0 for None
Position(list, key) ==
    IF \E i \in 1..Len(list) : list[i][1] = key
    THEN CHOOSE i \in 1..Len(list) :
            list[i][1] = key /\ \A j \in 1..(i - 1) : list[j][1] # key
    ELSE 0

\* SetValue that moves the entry it changes to the end of the list
SetValueMoveLast(list, index, value) ==
    SubSeq(list, 1, index - 1) \o SubSeq(list, index + 1, Len(list))
        \o << <<list[index][1], value>> >>

\* attributes[index].1 = value
SetValue(list, index, value) ==
    [list EXCEPT ![index] = <<list[index][1], value>>]

\* Push that inserts the entry at the head of the list
PushFront(list, key, value) == << <<key, value>> >> \o list

\* attributes.push((key, value))
Push(list, key, value) == Append(list, <<key, value>>)

\* Finalize that always returns the buffer
FinalizeBuffer(str, buf) == buf

\* the message of the returned Log: the input when the buffer is empty
Finalize(str, buf) == IF buf = <<>> THEN str ELSE buf

----------------------------------------------------------------------------
(* Inputs *)

MaxLen == 5      \* longest input drawn from ShortAlphabet
MaxTokens == 3   \* most pieces of an input drawn from Pool
MaxTail == 2     \* most pieces that follow a prefix filling the list

ShortAlphabet == {"a", EQ, DQ, SP}

\* every string over ShortAlphabet of at most MaxLen characters
ShortStrings == UNION { [1..n -> ShortAlphabet] : n \in 0..MaxLen }

\* the pieces longer inputs are made of; a piece that is empty or whitespace
\* gives leading, trailing and repeated whitespace once the pieces are joined
Pool ==
    { <<>>,
      <<TAB>>,
      <<"w">>,
      <<"a", EQ, "1">>,
      <<"a", EQ, "2">>,
      <<"z", EQ, "1">>,
      <<"a", "/", EQ, "1">>,
      <<"m", "s", "g", EQ, "h", "i">>,
      <<"m", "s", "g", EQ>>,
      <<"m", "e", "s", "s", "a", "g", "e", EQ, DQ, "a", SP, "b", DQ>>,
      <<DQ, "m", "s", "g", DQ, EQ, "h", "i">>,
      <<DQ, "m", "s", "g", DQ, EQ, DQ>> }

\* the pieces that follow a prefix filling the list
TailPool ==
    { <<TAB>>,
      <<"w">>,
      <<"a", EQ, "2">>,
      <<"z", EQ, "1">>,
      <<"m", "s", "g", EQ, "h", "i">> }

\* the pieces joined by one space
RECURSIVE Join(_)
Join(pieces) ==
    IF pieces = <<>> THEN <<>>
    ELSE IF Len(pieces) = 1 THEN pieces[1]
    ELSE pieces[1] \o <<SP>> \o Join(Tail(pieces))

SeqsUpTo(S, n) == UNION { [1..k -> S] : k \in 0..n }

TokenLines == { Join(pieces) : pieces \in SeqsUpTo(Pool, MaxTokens) }

\* Cap distinct keys, none of them a key of Pool's z=1
KeyLetters ==
    <<"a", "b", "c", "d", "e", "f", "g", "h", "i", "j", "k", "l", "m",
      "n", "o", "p", "q", "r", "s", "t", "u", "v", "w", "x", "y">>

\* n attribute tokens with n distinct keys
Filler(n) == [i \in 1..n |-> <<KeyLetters[i], EQ, "1">>]

\* what comes before the prefix: nothing, or an override
CapHeads == { <<>>, << <<"m", "s", "g", EQ, "h", "i">> >> }

\* inputs that fill the attribute list, or leave room for one more entry,
\* and go on
CapLines ==
    { Join(head \o Filler(n) \o pieces) :
        head \in CapHeads, n \in {Cap - 1, Cap},
        pieces \in SeqsUpTo(TailPool, MaxTail) }

Inputs == ShortStrings \cup TokenLines \cup CapLines

----------------------------------------------------------------------------
(* Log::parse *)

\* Token::parse was not called on s alone
NotParsed == [kind |-> "None"]

Init ==
    /\ s \in Inputs
    /\ pos = 0
    /\ message = <<>>
    /\ attributes = <<>>
    /\ message_property_found = FALSE
    /\ token = <<>>
    /\ result = "None"
    /\ log_message = <<>>
    /\ log_attributes = <<>>
    /\ last_override = <<>>
    /\ classified = NotParsed

\* the next token as the loop body finds it
Start == FindStart(s, pos)
Scan == ScanFrom(s, Start)
NextToken == SubSeq(s, Start, Scan.end - 1)
Parsed == TokenParse(NextToken)

\* no token is left: return Ok
Return ==
    /\ result = "None"
    /\ Start = 0
    /\ pos' = Len(s)
    /\ result' = "Ok"
    /\ log_message' = Finalize(s, message)
    /\ log_attributes' = attributes
    /\ UNCHANGED <<s, message, attributes, message_property_found, token,
                   last_override,
                   classified>>

\* the input ends inside a string: return Err(UnclosedString)
Unclosed ==
    /\ result = "None"
    /\ Start # 0
    /\ Scan.in_string
    /\ pos' = Scan.pos
    /\ result' = "Err"
    /\ UNCHANGED <<s, message, attributes, message_property_found, token,
                   log_message, log_attributes, last_override,
                   classified>>

\* Token::Word(word)
Word ==
    /\ result = "None"
    /\ Start # 0
    /\ ~Scan.in_string
    /\ Parsed.kind = "Word"
    /\ pos' = Scan.pos
    /\ token' = NextToken
    /\ message' = WordInto(message, message_property_found, Parsed.word)
    /\ UNCHANGED <<s, attributes, message_property_found, result, log_message,
                   log_attributes, last_override,
                   classified>>

\* Token::Attribute(key, value) with room, the key a message key
AttributeMessage ==
    /\ result = "None"
    /\ Start # 0
    /\ ~Scan.in_string
    /\ Parsed.kind = "Attribute"
    /\ HasRoom(attributes)
    /\ Parsed.key \in MessageKeys
    /\ pos' = Scan.pos
    /\ token' = NextToken
    /\ message' = Parsed.value
    /\ message_property_found' = TRUE
    /\ last_override' = Parsed.value
    /\ UNCHANGED <<s, attributes, result, log_message, log_attributes,
                   classified>>

\* AttributeUpdate that does not ask for room: a key in the list is updated
\* also when the list is full
AttributeUpdateAtCap ==
    /\ result = "None"
    /\ Start # 0
    /\ ~Scan.in_string
    /\ Parsed.kind = "Attribute"
    /\ Parsed.key \notin MessageKeys
    /\ Position(attributes, Parsed.key) # 0
    /\ pos' = Scan.pos
    /\ token' = NextToken
    /\ attributes' =
          SetValue(attributes, Position(attributes, Parsed.key), Parsed.value)
    /\ UNCHANGED <<s, message, message_property_found, result, log_message,
                   log_attributes, last_override,
                   classified>>

\* Token::Attribute(key, value) with room, the key in the list
AttributeUpdate ==
    /\ result = "None"
    /\ Start # 0
    /\ ~Scan.in_string
    /\ Parsed.kind = "Attribute"
    /\ HasRoom(attributes)
    /\ Parsed.key \notin MessageKeys
    /\ Position(attributes, Parsed.key) # 0
    /\ pos' = Scan.pos
    /\ token' = NextToken
    /\ attributes' =
          SetValue(attributes, Position(attributes, Parsed.key), Parsed.value)
    /\ UNCHANGED <<s, message, message_property_found, result, log_message,
                   log_attributes, last_override,
                   classified>>

\* Token::Attribute(key, value) with room, the key not in the list
AttributePush ==
    /\ result = "None"
    /\ Start # 0
    /\ ~Scan.in_string
    /\ Parsed.kind = "Attribute"
    /\ HasRoom(attributes)
    /\ Parsed.key \notin MessageKeys
    /\ Position(attributes, Parsed.key) = 0
    /\ pos' = Scan.pos
    /\ token' = NextToken
    /\ attributes' = Push(attributes, Parsed.key, Parsed.value)
    /\ UNCHANGED <<s, message, message_property_found, result, log_message,
                   log_attributes, last_override,
                   classified>>

\* the `_` arm: Token::Attribute without room
Overflow ==
    /\ result = "None"
    /\ Start # 0
    /\ ~Scan.in_string
    /\ Parsed.kind = "Attribute"
    /\ ~HasRoom(attributes)
    /\ pos' = Scan.pos
    /\ token' = NextToken
    /\ message' = WordInto(message, message_property_found, NextToken)
    /\ UNCHANGED <<s, attributes, message_property_found, result, log_message,
                   log_attributes, last_override,
                   classified>>

Next ==
    \/ Return
    \/ Unclosed
    \/ Word
    \/ AttributeMessage
    \/ AttributeUpdate
    \/ AttributePush
    \/ Overflow

Spec == Init /\ [][Next]_vars

----------------------------------------------------------------------------
(* The vocabulary of the claims *)

\* a parse has returned
Returned == result # "None"

\* this step handled a token
TokenStep == result = "None" /\ result' = "None" /\ pos' # pos

HasEquals(str) == \E i \in 1..Len(str) : str[i] = EQ

IsSuffix(tail, str) ==
    /\ Len(tail) <= Len(str)
    /\ SubSeq(str, Len(str) - Len(tail) + 1, Len(str)) = tail

\* the position of the first character after position p that is no
\* whitespace, 0 when there is none
NextNonSpace(str, p) ==
    LET rest == { i \in (p + 1)..Len(str) : ~IsWhitespace(str[i]) }
    IN  IF rest = {} THEN 0
        ELSE CHOOSE i \in rest : \A j \in rest : i <= j

\* A token as the claims read it: the quote flag toggles on every '"' from
\* the character at position i on, the token's first character included, and
\* the token ends before the first whitespace met while the flag is off.
\* `end` is the position after the token, `open` the flag at the end of input.
RECURSIVE QuotedScan(_, _, _)
QuotedScan(str, i, quoted) ==
    IF i > Len(str) THEN [end |-> Len(str) + 1, open |-> quoted]
    ELSE LET now == (quoted # (str[i] = DQ)) IN
         IF IsWhitespace(str[i]) /\ ~now THEN [end |-> i, open |-> FALSE]
         ELSE QuotedScan(str, i + 1, now)

\* some token so read, from position p on, is still open at the end of input
RECURSIVE OpenQuote(_, _)
OpenQuote(str, p) ==
    LET start == NextNonSpace(str, p) IN
    IF start = 0 THEN FALSE
    ELSE LET scan == QuotedScan(str, start, FALSE) IN
         scan.open \/ OpenQuote(str, scan.end)

\* the positions at which a token so read may start to be looked for
RECURSIVE QuotedBoundaries(_, _)
QuotedBoundaries(str, p) ==
    LET start == NextNonSpace(str, p) IN
    IF start = 0 THEN {p}
    ELSE LET scan == QuotedScan(str, start, FALSE) IN
         IF scan.open \/ scan.end > Len(str) THEN {p}
         ELSE {p} \cup QuotedBoundaries(str, scan.end)

\* str split at whitespace
RECURSIVE SplitWhitespace(_, _)
SplitWhitespace(str, p) ==
    LET start == NextNonSpace(str, p) IN
    IF start = 0 THEN <<>>
    ELSE LET stops == { i \in start..Len(str) : IsWhitespace(str[i]) }
             end == IF stops = {} THEN Len(str) + 1
                    ELSE CHOOSE i \in stops : \A j \in stops : i <= j
         IN  <<SubSeq(str, start, end - 1)>> \o SplitWhitespace(str, end)

\* the words joined by exactly one space
RECURSIVE JoinSpace(_)
JoinSpace(words) ==
    IF words = <<>> THEN <<>>
    ELSE IF Len(words) = 1 THEN words[1]
    ELSE words[1] \o <<SP>> \o JoinSpace(Tail(words))

\* runs of whitespace collapsed to one space, surrounding whitespace removed
Collapse(str) == JoinSpace(SplitWhitespace(str, 0))

NoEqualsNoQuote(str) == \A i \in 1..Len(str) : str[i] \notin {EQ, DQ}

----------------------------------------------------------------------------
(* C1 *)

\* C1: Log::parse returns Err(UnclosedString) if and only if some token of
\* the input, its quotes counted from its first character, is still open at
\* the end of the input.
C1_QuoteBalance ==
    Returned => (result = "Err" <=> OpenQuote(s, 0))

----------------------------------------------------------------------------
(* C2 *)

\* the token of the input, read as the claims read it, that the parse is about
\* to handle is a message override with a valid value, and the list has room
C2_OverrideNext ==
    /\ result = "None"
    /\ pos \in QuotedBoundaries(s, 0)
    /\ NextNonSpace(s, pos) # 0
    /\ ~QuotedScan(s, NextNonSpace(s, pos), FALSE).open
    /\ LET start == NextNonSpace(s, pos)
           parsed == TokenParse(
               SubSeq(s, start, QuotedScan(s, start, FALSE).end - 1))
       IN  parsed.kind = "Attribute" /\ parsed.key \in MessageKeys
    /\ Len(attributes) < Cap

C2_OverrideValue ==
    LET start == NextNonSpace(s, pos) IN
    TokenParse(SubSeq(s, start, QuotedScan(s, start, FALSE).end - 1)).value

\* C2: a token whose key is msg, message, "msg" or "message" and whose value
\* is valid, handled while the list has fewer than 25 entries, is no error,
\* makes its value the message buffer, sets the override flag and leaves the
\* attribute list as it is.
C2_OverrideApplied ==
    [][ C2_OverrideNext =>
            /\ result' # "Err"
            /\ message' = C2_OverrideValue
            /\ message_property_found'
            /\ attributes' = attributes ]_vars

----------------------------------------------------------------------------
(* C3 *)

\* C3: when a parse that applied an override returns Ok, message() is the
\* value of the last override applied, the empty value included.
C3_LastOverrideWins ==
    (result = "Ok" /\ message_property_found) => log_message = last_override

----------------------------------------------------------------------------
(* C4 *)

\* C4 as claimed: an input without '=' and '"' parses to its words joined by
\* one space and to no attributes, inputs of whitespace alone included.
C4_WordRoundTripClaimed ==
    (Returned /\ NoEqualsNoQuote(s)) =>
        /\ result = "Ok"
        /\ log_message = Collapse(s)
        /\ log_attributes = <<>>

\* C4 as amended: an input without '=' and '"' parses to no attributes and,
\* when it holds a character that is no whitespace, to its words joined by
\* one space; an input of whitespace alone, like the empty input, comes back
\* unchanged as the message.
C4_WordRoundTrip ==
    (Returned /\ NoEqualsNoQuote(s)) =>
        /\ result = "Ok"
        /\ log_attributes = <<>>
        /\ log_message = IF NextNonSpace(s, 0) = 0 THEN s ELSE Collapse(s)

\* an input with surrounding or repeated whitespace was collapsed
C4_Witness ==
    /\ result = "Ok"
    /\ NoEqualsNoQuote(s)
    /\ Len(SplitWhitespace(s, 0)) >= 2
    /\ Len(log_message) < Len(s)

----------------------------------------------------------------------------
(* The tokens of a parse that returned Ok, as the claims speak of them *)

InputTokens == TokensFrom(s, 0)

IsAttribute(str) == TokenParse(str).kind = "Attribute"
KeyOf(str) == TokenParse(str).key
ValueOf(str) == TokenParse(str).value

IsOverride(str) == IsAttribute(str) /\ KeyOf(str) \in MessageKeys

\* the keys of the attribute tokens before the i-th token
KeysBefore(toks, i) == { KeyOf(toks[j]) : j \in { k \in 1..(i - 1) : IsAttribute(toks[k]) } }

\* the i-th token is an attribute token that finds the list full: Cap keys
\* came before it, so at least Cap tokens did
Diverted(toks, i) ==
    /\ i > Cap
    /\ IsAttribute(toks[i])
    /\ Cardinality(KeysBefore(toks, i)) >= Cap

\* the i-th token is stored in the list
Admitted(toks, i) == IsAttribute(toks[i]) /\ ~Diverted(toks, i)

\* the i-th token is handled as a word
AsWord(toks, i) == ~IsAttribute(toks[i]) \/ Diverted(toks, i)

\* the subsequence of toks at those of the positions 1..n that are in keep
RECURSIVE PickAt(_, _, _)
PickAt(toks, n, keep) ==
    IF n = 0 THEN <<>>
    ELSE IF n \in keep THEN Append(PickAt(toks, n - 1, keep), toks[n])
    ELSE PickAt(toks, n - 1, keep)

\* the tokens handled as words, in input order
WordTexts(toks) ==
    PickAt(toks, Len(toks), { i \in 1..Len(toks) : AsWord(toks, i) })

\* the i-th token is the first admitted token with its key
FirstOfKey(toks, i) ==
    /\ Admitted(toks, i)
    /\ \A j \in 1..(i - 1) : Admitted(toks, j) => KeyOf(toks[j]) # KeyOf(toks[i])

\* the value of the last admitted token with this key
LastValue(toks, key) ==
    LET at == { i \in 1..Len(toks) : Admitted(toks, i) /\ KeyOf(toks[i]) = key }
    IN  ValueOf(toks[CHOOSE i \in at : \A j \in at : j <= i])

\* one pair for each key admitted, in the order the keys first occur
ExpectedAttributes(toks) ==
    LET firsts == PickAt(toks, Len(toks),
                         { i \in 1..Len(toks) : FirstOfKey(toks, i) })
    IN  [i \in 1..Len(firsts) |->
            <<KeyOf(firsts[i]), LastValue(toks, KeyOf(firsts[i]))>>]

----------------------------------------------------------------------------
(* C5 *)

\* every token is an attribute token that is stored and overrides nothing
C5_AttributesOnly ==
    /\ result = "Ok"
    /\ \A i \in 1..Len(InputTokens) :
          Admitted(InputTokens, i) /\ ~IsOverride(InputTokens[i])

\* C5: when every token of the input is a valid attribute token that is no
\* override and none is diverted, message() is the input itself and
\* attributes() holds one pair for each key, in order of first occurrence.
C5_Passthrough ==
    C5_AttributesOnly =>
        /\ log_message = s
        /\ log_attributes = ExpectedAttributes(InputTokens)

\* such an input with leading whitespace and a repeated key was parsed
C5_Witness ==
    /\ C5_AttributesOnly
    /\ Len(s) > 0
    /\ IsWhitespace(s[1])
    /\ Len(InputTokens) >= 2
    /\ Len(log_attributes) < Len(InputTokens)

----------------------------------------------------------------------------
(* C6 *)

\* no token overrides the message and some token is handled as a word
C6_WordsAndAttributes ==
    /\ result = "Ok"
    /\ \A i \in 1..Len(InputTokens) : ~IsOverride(InputTokens[i])
    /\ \E i \in 1..Len(InputTokens) : AsWord(InputTokens, i)

\* C6: without an override and with at least one word, message() is the
\* words and the diverted tokens in input order joined by one space, and
\* attributes() holds the admitted pairs in order of first occurrence, the
\* quotes of a value kept.
C6_MessageOfWords ==
    C6_WordsAndAttributes =>
        /\ log_message = JoinSpace(WordTexts(InputTokens))
        /\ log_attributes = ExpectedAttributes(InputTokens)

\* words around an attribute with a quoted value were parsed
C6_Witness ==
    /\ C6_WordsAndAttributes
    /\ \E i \in 1..Len(InputTokens) : ~IsAttribute(InputTokens[i])
    /\ \E i \in 1..Len(log_attributes) : StartsWith(log_attributes[i][2], DQ)

----------------------------------------------------------------------------
(* C7 *)

UniqueKeys(list) ==
    \A i, j \in 1..Len(list) : list[i][1] = list[j][1] => i = j

\* C7: the attribute list, while parsing and in the returned Log, has at
\* most 25 entries and no two entries with the same key.
C7_ListBounded ==
    /\ Len(attributes) <= Cap /\ UniqueKeys(attributes)
    /\ Len(log_attributes) <= Cap /\ UniqueKeys(log_attributes)

\* a full list met a further attribute token, and was returned
C7_Witness ==
    /\ result = "Ok"
    /\ Len(log_attributes) = Cap
    /\ IsAttribute(token)
    /\ IsSuffix(token, log_message)

----------------------------------------------------------------------------
(* C8 *)

HasKey(list, key) == \E i \in 1..Len(list) : list[i][1] = key

\* C8: an attribute token whose key is in the list, handled while the list
\* has fewer than 25 entries, changes the value of that entry and nothing
\* else: not the length, the keys or their order, the other values, the
\* message buffer or the override flag.
C8_UpdateInPlace ==
    [][ ( /\ TokenStep
          /\ IsAttribute(token')
          /\ HasKey(attributes, KeyOf(token'))
          /\ Len(attributes) < Cap )
        =>
        ( /\ Len(attributes') = Len(attributes)
          /\ \A i \in 1..Len(attributes) :
                /\ attributes'[i][1] = attributes[i][1]
                /\ attributes'[i][2] =
                      IF attributes[i][1] = KeyOf(token')
                      THEN ValueOf(token') ELSE attributes[i][2]
          /\ message' = message
          /\ message_property_found' = message_property_found ) ]_vars

\* the first of two entries was given a new value by the last token
C8_Witness ==
    /\ result = "None"
    /\ Len(attributes) = 2
    /\ token = <<"a", EQ, "2">>
    /\ attributes[1] = << <<"a">>, <<"2">> >>

----------------------------------------------------------------------------
(* C9 *)

\* the input is 26 attribute tokens with 26 keys, none an override
C9_OneTooMany ==
    /\ result = "Ok"
    /\ Len(InputTokens) = Cap + 1
    /\ \A i \in 1..Len(InputTokens) :
          IsAttribute(InputTokens[i]) /\ ~IsOverride(InputTokens[i])
    /\ \A i, j \in 1..Len(InputTokens) :
          KeyOf(InputTokens[i]) = KeyOf(InputTokens[j]) => i = j

\* C9: 26 attribute tokens with 26 distinct keys give exactly 25 entries,
\* those of the first 25 tokens in order, and the text of the 26th token
\* ends message().
C9_CapEnforced ==
    C9_OneTooMany =>
        /\ Len(log_attributes) = Cap
        /\ \A i \in 1..Cap :
              log_attributes[i] = <<KeyOf(InputTokens[i]), ValueOf(InputTokens[i])>>
        /\ IsSuffix(InputTokens[Cap + 1], log_message)

C9_Witness == C9_OneTooMany

----------------------------------------------------------------------------
(* C10 *)

\* C10: a token with '=' that breaks a rule of the key or of the value is no
\* error and leaves the attribute list alone; its text, unsplit, is appended
\* to the message as a word when no override is in effect and dropped when
\* one is.
C10_DemotedToWord ==
    [][ ( /\ TokenStep
          /\ HasEquals(token')
          /\ ~IsAttribute(token') )
        =>
        ( /\ attributes' = attributes
          /\ message_property_found' = message_property_found
          /\ message' =
                IF message_property_found THEN message
                ELSE IF message = <<>> THEN token'
                ELSE message \o <<SP>> \o token' ) ]_vars

\* a token with '=' that is no attribute was dropped after an override
C10_Witness ==
    /\ result = "None"
    /\ HasEquals(token)
    /\ ~IsAttribute(token)
    /\ message_property_found
    /\ message = last_override
    /\ message # <<>>

----------------------------------------------------------------------------
(* C11 *)

\* the token that starts at the first character after pos that is no
\* whitespace, its quotes counted from that character on
C11_QuotedToken ==
    LET start == NextNonSpace(s, pos) IN
    SubSeq(s, start, QuotedScan(s, start, FALSE).end - 1)

\* C11: the in-quote flag toggles on every '"' of a token, its first
\* character included, and the token ends at the first whitespace met while
\* the flag is off: the iteration slices exactly that token, whitespace
\* between an opening and a closing '"' inside it.
C11_TokenRespectsQuotes ==
    [][ ( /\ result = "None"
          /\ pos \in QuotedBoundaries(s, 0)
          /\ NextNonSpace(s, pos) # 0
          /\ ~QuotedScan(s, NextNonSpace(s, pos), FALSE).open )
        =>
        ( result' = "None" /\ token' = C11_QuotedToken ) ]_vars

----------------------------------------------------------------------------
(* C12 *)

\* C12: once the list holds 25 entries, an attribute token, be its key in
\* the list or a message key, leaves the list and the override flag as they
\* are and is handled as a word: its whole text is appended to the message
\* when no override is in effect and dropped when one is.
C12_FullListDiverts ==
    [][ ( /\ TokenStep
          /\ Len(attributes) = Cap
          /\ IsAttribute(token') )
        =>
        ( /\ attributes' = attributes
          /\ message_property_found' = message_property_found
          /\ message' =
                IF message_property_found THEN message
                ELSE IF message = <<>> THEN token'
                ELSE message \o <<SP>> \o token' ) ]_vars

\* a token whose key is in the full list was appended to the message, the
\* entry of its key left as it was
C12_Witness ==
    /\ result = "None"
    /\ Len(attributes) = Cap
    /\ token = <<"a", EQ, "2">>
    /\ attributes[1] = << <<"a">>, <<"1">> >>
    /\ ~message_property_found
    /\ IsSuffix(token, message)

----------------------------------------------------------------------------
(* Token::parse called on one token *)

LenSlack == 1    \* how far the long keys and values go past the limits

TokenAlphabet == ShortAlphabet \cup {"/", "-"}

ShortTokens == UNION { [1..n -> TokenAlphabet] : n \in 0..MaxLen }

Run(ch, n) == [i \in 1..n |-> ch]
Quoted(str) == <<DQ>> \o str \o <<DQ>>

\* keys and values of the lengths around the limits, bare and quoted, of
\* one-byte and of two-byte characters
LongSides(limit, quotedLimit, chars) ==
    UNION { { Run(ch, n), Quoted(Run(ch, n - 2)) } :
              ch \in chars,
              n \in (limit - LenSlack)..(quotedLimit + LenSlack) }

LongTokens ==
    { key \o <<EQ>> \o value :
        key \in LongSides(MaxKeyLen, MaxQuotedKeyLen, {"k", EACUTE})
                  \cup { <<>>, <<"k">>, Quoted(<<"k">>) },
        value \in LongSides(MaxValueLen, MaxQuotedValueLen, {"v", EACUTE})
                  \cup { <<>>, <<"v">>, <<DQ>> } }

\* a string without whitespace is sliced as one token when the '"' after
\* its first character, the ones that toggle in_string, are even in number
ClosedRun(str) ==
    Cardinality({ i \in 2..Len(str) : str[i] = DQ }) % 2 = 0

\* the strings among them that Log::parse slices as one token
TokenInputs ==
    { str \in ShortTokens : TokensFrom(str, 0) = <<str>> }
        \cup { str \in LongTokens : ClosedRun(str) }

TokenInit ==
    /\ s \in TokenInputs
    /\ pos = 0
    /\ message = <<>>
    /\ attributes = <<>>
    /\ message_property_found = FALSE
    /\ token = <<>>
    /\ result = "None"
    /\ log_message = <<>>
    /\ log_attributes = <<>>
    /\ last_override = <<>>
    /\ classified = NotParsed

\* Token::parse(s)
Classify ==
    /\ classified = NotParsed
    /\ classified' = TokenParse(s)
    /\ UNCHANGED <<s, pos, message, attributes, message_property_found, token,
                   result, log_message, log_attributes, last_override>>

TokenNext == Classify

TokenSpec == TokenInit /\ [][TokenNext]_vars

----------------------------------------------------------------------------
(* The sides of a token, as the claims speak of them *)

\* the position of the first '=' of str, 0 when there is none
FirstEquals(str) ==
    LET at == { i \in 1..Len(str) : str[i] = EQ }
    IN  IF at = {} THEN 0 ELSE CHOOSE i \in at : \A j \in at : i <= j

KeySide(str) == Trim(SubSeq(str, 1, FirstEquals(str) - 1))
ValueSide(str) == Trim(SubSeq(str, FirstEquals(str) + 1, Len(str)))

\* the side is within its limit, counted in characters: max when its first
\* character is no '"', quotedMax when it is
WithinLimit(side, max, quotedMax) ==
    Len(side) <= IF StartsWith(side, DQ) THEN quotedMax ELSE max

AllAlphanumeric(str) == \A i \in 1..Len(str) : IsAlphanumeric(str[i])

\* alphanumeric characters, bare or between two quotes
PlainSide(side) ==
    \/ AllAlphanumeric(side)
    \/ /\ Len(side) >= 2
       /\ StartsWith(side, DQ)
       /\ EndsWith(side, DQ)
       /\ AllAlphanumeric(SubSeq(side, 2, Len(side) - 1))

----------------------------------------------------------------------------
(* C13 *)

\* C13: Token::parse counts the limits in characters: a token with '=' is
\* an Attribute only if its key has at most 50 characters, 52 when quoted,
\* and its value at most 100, 102 when quoted; sides of alphanumeric
\* characters within these limits, multi-byte characters among them, give an
\* Attribute; a key of 51 (53 quoted) or a value of 101 (103 quoted)
\* characters gives a Word.
C13_LimitsInCharacters ==
    (classified # NotParsed /\ HasEquals(s)) =>
        LET key == KeySide(s)
            value == ValueSide(s)
            within == WithinLimit(key, 50, 52) /\ WithinLimit(value, 100, 102)
        IN  /\ classified.kind = "Attribute" => within
            /\ ~within => classified = [kind |-> "Word", word |-> s]
            /\ (within /\ PlainSide(key) /\ PlainSide(value)) =>
                  classified =
                      [kind |-> "Attribute", key |-> key, value |-> value]

\* a key of 50 characters and more than 50 bytes with a quoted value of 102
\* characters was classified an Attribute
C13_Witness ==
    /\ classified # NotParsed
    /\ classified.kind = "Attribute"
    /\ Len(classified.key) = 50
    /\ ByteCount(classified.key) > 52
    /\ Len(classified.value) = 102

----------------------------------------------------------------------------
(* C14 *)

QuoteInside(side) == \E i \in 1..Len(side) : 1 < i /\ i < Len(side) /\ side[i] = DQ

\* no '"' inside, a '"' at the start if and only if one at the end
BalancedSide(side) ==
    /\ ~QuoteInside(side)
    /\ StartsWith(side, DQ) <=> EndsWith(side, DQ)

KeyCharacters(key) ==
    \A i \in 1..Len(key) :
        IsAlphanumeric(key[i]) \/ key[i] \in {".", "_", "-", DQ}

\* C14: Token::parse returns Word for a token without '='; for a token with
\* '=' whose sides are within the length limits it returns Attribute(key,
\* value), the trimmed text before and after the first '=', exactly when
\* both sides are balanced and every character of the key is alphanumeric or
\* one of . _ - ", and Word of the whole token otherwise.
C14_AttributeShape ==
    classified # NotParsed =>
        IF ~HasEquals(s)
        THEN classified = [kind |-> "Word", word |-> s]
        ELSE LET key == KeySide(s)
                 value == ValueSide(s)
             IN  (WithinLimit(key, 50, 52) /\ WithinLimit(value, 100, 102)) =>
                    classified =
                        IF /\ BalancedSide(key)
                           /\ BalancedSide(value)
                           /\ KeyCharacters(key)
                        THEN [kind |-> "Attribute", key |-> key, value |-> value]
                        ELSE [kind |-> "Word", word |-> s]

\* a token with a second '=' and a quoted value was classified an Attribute,
\* the second '=' in its value
C14_Witness ==
    /\ classified # NotParsed
    /\ classified.kind = "Attribute"
    /\ HasEquals(classified.value)
    /\ classified.key # <<>>

----------------------------------------------------------------------------
(* C15 *)

\* C15: Log::parse terminates: every iteration that does not return, the one
\* that applies an override and continues among them, consumes at least one
\* character and never more than the input holds, so there are at most
\* Len(s) of them; the loop ends with Ok only when no character but
\* whitespace is left, and otherwise with Err, a token at hand.
C15_Terminates ==
    /\ [](pos <= Len(s))
    /\ [][ result = "None" =>
              /\ result' = "None" => pos < pos'
              /\ result' = "Ok" <=> NextNonSpace(s, pos) = 0
              /\ result' = "Err" => NextNonSpace(s, pos) # 0
              /\ result' \in {"None", "Ok", "Err"} ]_vars

\* an iteration applied an override and went on consuming the input
C15_Witness ==
    /\ result = "Ok"
    /\ message_property_found
    /\ Len(InputTokens) >= 3
    /\ IsOverride(InputTokens[1])

----------------------------------------------------------------------------
(* C16 *)

\* the token has '=' and nothing before or nothing after the first one
EmptySided(tok) ==
    HasEquals(tok) /\ (KeySide(tok) = <<>> \/ ValueSide(tok) = <<>>)

\* the two sides would make an attribute were none of them empty: balanced
\* quotes, key characters, lengths within the limits
SidesWellFormed(tok) ==
    /\ BalancedSide(KeySide(tok))
    /\ BalancedSide(ValueSide(tok))
    /\ KeyCharacters(KeySide(tok))
    /\ WithinLimit(KeySide(tok), 50, 52)
    /\ WithinLimit(ValueSide(tok), 100, 102)

\* C16: a token with an empty side is admitted as an attribute and not
\* demoted to a Word: while the list has room, a well-formed token that
\* starts with '=' or ends with its first '=' leaves the message words alone
\* and has the pair of its sides, the empty string for the empty one, in the
\* list after the step ('=' alone the pair of two empty strings); with a
\* message key before a final '=' the empty value becomes the override.
C16_EmptySideAdmitted ==
    [][ ( /\ TokenStep
          /\ EmptySided(token')
          /\ SidesWellFormed(token')
          /\ Len(attributes) < Cap ) =>
            LET key == KeySide(token')
                value == ValueSide(token')
            IN  IF key \in MessageKeys
                THEN /\ message' = value
                     /\ message_property_found'
                     /\ attributes' = attributes
                ELSE /\ message' = message
                     /\ \E i \in 1..Len(attributes') :
                            attributes'[i] = <<key, value>>
                     /\ Len(attributes') =
                            Len(attributes) + (IF HasKey(attributes, key)
                                               THEN 0 ELSE 1) ]_vars

\* the token '=' alone was stored as the pair of two empty strings
C16_Witness ==
    /\ token = <<EQ>>
    /\ message = <<>>
    /\ \E i \in 1..Len(attributes) : attributes[i] = << <<>>, <<>> >>

====
